---- MODULE Spec2Model ----
(***************************************************************************)
(* Identity and tenancy core of the facilitator CRM backend:               *)
(*   - OTP store          (models/database.py, FacilitatorRepository)      *)
(*   - identity routes    (routes/phone_auth_routes.py)                    *)
(*   - onboarding saves   (models/database.py, save_* methods)             *)
(*   - website publishing (routes/courses_routes.py)                       *)
(*                                                                         *)
(* The database tables are the state.  Every repository method opens its   *)
(* own SQLAlchemy session (autoflush off): reads see the committed rows,   *)
(* pending writes reach the tables only at session.commit(), and a session *)
(* closed without commit discards them.                                    *)
(*                                                                         *)
(* The same handlers are given under several schedulings:                  *)
(*   Spec        send-otp, verify-otp and the clock, one request at a time;*)
(*   SpecOnb     sign-up, onboarding and publishing, one request at a time;*)
(*   SpecConc    send-otp and verify-otp requests in NSlots worker slots,  *)
(*               one step per SQL statement / commit;                      *)
(*   SpecGuard   the endpoints called with any bearer token, over the      *)
(*               lifetime of the tokens;                                   *)
(*   SpecFail    the onboarding saves when the database raises an error;   *)
(*   SpecConcOnb onboarding-step requests of one practitioner in worker    *)
(*               slots, one step per transaction / statement;              *)
(*   SpecResave  one practitioner saving and re-saving steps;              *)
(*   SpecSmsDown the identity flow while every SMS fails;                  *)
(*   SpecTenant  publishing and the public website, resolved from the Host *)
(*               header by middleware/subdomain_middleware.py, one request *)
(*               at a time;                                                *)
(*   SpecConcPub publish-website requests in worker slots, one step per    *)
(*               repository call.                                          *)
(*                                                                         *)
(* Schema notes.  The unique constraints declared on the ORM classes       *)
(* (practitioners.phone_number, practitioners.subdomain, practitioner_id   *)
(* of the step tables) are taken as enforced: the tables are made by       *)
(* create_all.  The foreign key                                            *)
(* phone_otps.phone_number -> practitioners.phone_number is not: the       *)
(* "truly new user" branch of verify_otp_and_get_user_status is only       *)
(* reachable when an OTP row exists for a phone without a practitioner.    *)
(***************************************************************************)
EXTENDS Integers, Sequences, FiniteSets, TLC

(* ------------------------------ bounds --------------------------------- *)
NPhones == 2
NCodes == 2
MaxOtps == 2
MaxNow == 20
NPayloads == 1
MaxRows == 1
NSubdomains == 1
NSlots == 2
MaxUses == 2

(* -------------------------- program constants -------------------------- *)
OTP_MIN == 100000
OTP_TTL_MINUTES == 10
TEMP_TOKEN_MINUTES == 120
AUTH_TOKEN_MINUTES == 10080
FINAL_STEP == 6
TOTAL_STEPS == 5

(* The clock is in minutes and advances in units of the OTP lifetime.      *)
TickMinutes == OTP_TTL_MINUTES

Phones == 1..NPhones
Codes == OTP_MIN..(OTP_MIN + NCodes - 1)
Payloads == 1..NPayloads
Slots == 1..NSlots
Steps == 1..TOTAL_STEPS

None == 0

(* ------------------------------ strings -------------------------------- *)
\* A Python str is the sequence of its characters.
ascii_uppercase == <<"A", "B", "C", "D", "E", "F", "G", "H", "I", "J", "K", "L", "M", "N", "O", "P", "Q", "R", "S", "T", "U", "V", "W", "X", "Y", "Z">>
ascii_lowercase == <<"a", "b", "c", "d", "e", "f", "g", "h", "i", "j", "k", "l", "m", "n", "o", "p", "q", "r", "s", "t", "u", "v", "w", "x", "y", "z">>
digits == <<"0", "1", "2", "3", "4", "5", "6", "7", "8", "9">>

Chars(s) == {s[i] : i \in DOMAIN s}

\* the NULL of the subdomain column and the None of get_subdomain_from_host;
\* the code tests both with "if subdomain", as it would the empty string
NoSubdomain == <<>>

\* the lower-case letter of every upper-case letter
to_lower ==
  [c \in Chars(ascii_uppercase) |->
     ascii_lowercase[CHOOSE i \in DOMAIN ascii_uppercase : ascii_uppercase[i] = c]]

lower_char(c) == IF c \in DOMAIN to_lower THEN to_lower[c] ELSE c

\* str.lower()
RECURSIVE lower(_)
lower(s) == IF s = <<>> THEN <<>> ELSE <<lower_char(Head(s))>> \o lower(Tail(s))

\* str.endswith(suffix)
endswith(s, suffix) ==
  /\ Len(s) >= Len(suffix)
  /\ SubSeq(s, Len(s) - Len(suffix) + 1, Len(s)) = suffix

\* str.replace(old, ''): every occurrence of old is removed, left to right
RECURSIVE replace(_, _)
replace(s, old) ==
  IF Len(s) < Len(old) THEN s
  ELSE IF SubSeq(s, 1, Len(old)) = old
  THEN replace(SubSeq(s, Len(old) + 1, Len(s)), old)
  ELSE <<Head(s)>> \o replace(Tail(s), old)

\* host.split(':')[0]
RECURSIVE split_port(_)
split_port(host) ==
  IF host = <<>> \/ Head(host) = ":" THEN <<>>
  ELSE <<Head(host)>> \o split_port(Tail(host))

\* the character class [a-z0-9-]
subdomain_chars == Chars(ascii_lowercase) \cup Chars(digits) \cup {"-"}

\* re.match(r'^[a-z0-9-]{3,}$', subdomain): "$" also matches before one
\* trailing newline
re_match_subdomain(subdomain) ==
  LET body == IF subdomain # <<>> /\ subdomain[Len(subdomain)] = "\n"
              THEN SubSeq(subdomain, 1, Len(subdomain) - 1)
              ELSE subdomain
  IN /\ Len(body) >= 3
     /\ Chars(body) \subseteq subdomain_chars

\* subdomains that clients ask for, well-formed ones first
SubdomainNames ==
  << <<"y", "o", "g", "a">>,
     <<"a", "d", "m", "i", "n">>,
     <<"w", "w", "w">>,
     <<"Y", "o", "g", "a">>,
     <<"y", "o">> >>

Subdomains == {SubdomainNames[k] : k \in (1..NSubdomains) \cap DOMAIN SubdomainNames}

VARIABLES
  now,              \* wall clock, minutes
  phone_otps,       \* table phone_otps: sequence of rows, id = index
  practitioners,    \* table practitioners: sequence of rows, id = index
  step_records,     \* per practitioner id, per step 1..4: payload or None
  work_experience,  \* per practitioner id: number of facilitator_work_experience rows
  certifications,   \* per practitioner id: number of facilitator_certifications rows
  held_tokens,      \* tokens in the hands of clients (latest per variant and identity)
  last,             \* Spec: the last request served and its response
  otp_uses,         \* history: per OTP row, number of successful verifications that matched it
  inflight          \* SpecConc: per worker slot, the request being served

dbvars == <<phone_otps, practitioners, step_records, work_experience, certifications>>
vars == <<now, phone_otps, practitioners, step_records, work_experience,
          certifications, held_tokens, last, otp_uses, inflight>>

(* ------------------------------ rows ----------------------------------- *)
PhoneOTP(phone, otp, expires_at) ==
  [phone_number |-> phone, otp |-> otp, expires_at |-> expires_at, is_verified |-> FALSE]

Practitioner(phone, first_login) ==
  [phone_number |-> phone, name |-> None, onboarding_step |-> 0,
   crm_onboarding_completed |-> FALSE, crm_first_login_date |-> first_login,
   is_active |-> TRUE, subdomain |-> NoSubdomain, website_published |-> FALSE,
   website_status |-> "draft"]

NoSteps == [n \in 1..4 |-> None]

(* ------------------------------ tokens --------------------------------- *)
\* A bearer token as the server sees it: the claims of the JWT and whether its
\* signature verifies under JWT_SECRET.  NoToken is the absent header, and the
\* None that decode_token returns.
NoToken == [type |-> "none", facilitator_id |-> None, phone_number |-> None,
            is_authenticated |-> FALSE, otp_verified |-> FALSE, exp |-> 0,
            signed |-> FALSE]

generate_temp_token(phone, facilitator_id) ==
  [type |-> "onboarding", facilitator_id |-> facilitator_id, phone_number |-> phone,
   is_authenticated |-> FALSE, otp_verified |-> TRUE,
   exp |-> now + TEMP_TOKEN_MINUTES, signed |-> TRUE]

generate_auth_token(facilitator_id, phone) ==
  [type |-> "auth", facilitator_id |-> facilitator_id, phone_number |-> phone,
   is_authenticated |-> TRUE, otp_verified |-> FALSE,
   exp |-> now + AUTH_TOKEN_MINUTES, signed |-> TRUE]

\* jwt.decode: InvalidTokenError on a bad signature, ExpiredSignatureError once
\* exp <= now
decode_token(token) ==
  IF token.signed /\ token.type # "none" /\ token.exp > now THEN token ELSE NoToken

\* a client that logs in again keeps the newer token of the same variant
Hold(tokens, token) ==
  IF token = NoToken THEN tokens
  ELSE {t \in tokens : ~(t.type = token.type /\ t.facilitator_id = token.facilitator_id
                          /\ t.phone_number = token.phone_number)} \cup {token}

(* ----------------------------- responses ------------------------------- *)
Response(status, error, redirect_to, current_step, next_step, token, complete) ==
  [status |-> status, error |-> error, redirect_to |-> redirect_to,
   current_step |-> current_step, next_step |-> next_step, token |-> token,
   onboarding_complete |-> complete, is_new_user |-> FALSE, message |-> "",
   subdomain |-> NoSubdomain, practitioner |-> None]

ErrorResponse(status, error) == Response(status, error, "", None, None, NoToken, FALSE)

NoResponse == Response(0, "", "", None, None, NoToken, FALSE)

Request(op, phone, otp, token, step) ==
  [op |-> op, phone_number |-> phone, otp |-> otp, token |-> token, step |-> step,
   host |-> <<>>, subdomain |-> NoSubdomain]

NoRequest == Request("none", None, None, NoToken, None)

(* ---------------------------- token guards ---------------------------- *)
\* the 401 answers of the decorators: "error" and "message" of the JSON body
Rejection(error, message) == [ErrorResponse(401, error) EXCEPT !.message = message]

\* mutant: token_required without the check of the token's type
token_required_response_any_type(token) ==
  LET payload == decode_token(token) IN
  IF token = NoToken
  THEN Rejection("Authentication required", "Please provide a valid token")
  ELSE IF payload = NoToken
  THEN Rejection("Invalid token", "Please login again")
  ELSE NoResponse

\* token_required: the answer the decorator gives itself, NoResponse when it
\* calls the endpoint
token_required_response(token) ==
  LET payload == decode_token(token) IN
  IF token = NoToken
  THEN Rejection("Authentication required", "Please provide a valid token")
  ELSE IF payload = NoToken
  THEN Rejection("Invalid token", "Please login again")
  ELSE IF payload.type # "auth" \/ ~payload.is_authenticated
  THEN Rejection("Invalid token type", "Please login again")
  ELSE NoResponse

token_required(token) == token_required_response(token) = NoResponse

\* onboarding_token_required, likewise
onboarding_token_required_response(token) ==
  LET payload == decode_token(token) IN
  IF token = NoToken
  THEN Rejection("Authentication required", "Please verify OTP first")
  ELSE IF payload = NoToken
  THEN Rejection("Invalid token", "Please verify OTP again")
  ELSE IF payload.type # "onboarding" \/ ~payload.otp_verified
  THEN Rejection("Invalid token type", "Please verify OTP first")
  ELSE NoResponse

onboarding_token_required(token) == onboarding_token_required_response(token) = NoResponse

(* ------------------------------ OTP store ------------------------------ *)
generate_otp == Codes

\* mutant: create_otp that stores the new code without invalidating the old ones
create_otp_marks_none(phone) == {}

\* create_otp, first statement: UPDATE phone_otps SET is_verified = true
\* WHERE phone_number = :phone AND is_verified = false
create_otp_marks(phone) ==
  {i \in DOMAIN phone_otps :
     phone_otps[i].phone_number = phone /\ phone_otps[i].is_verified = FALSE}

\* create_otp, INSERT of the new row and commit of the session
create_otp_commit(marks, phone, otp) ==
  /\ phone_otps' = Append(
        [i \in DOMAIN phone_otps |->
           IF i \in marks THEN [phone_otps[i] EXCEPT !.is_verified = TRUE]
           ELSE phone_otps[i]],
        PhoneOTP(phone, otp, now + OTP_TTL_MINUTES))
  /\ otp_uses' = Append(otp_uses, 0)

\* mutant: the expiry test admits the instant expires_at itself
otp_matches_at_expiry(row, phone, otp) ==
  /\ row.phone_number = phone
  /\ row.otp = otp
  /\ row.is_verified = FALSE
  /\ row.expires_at >= now

\* the filter of verify_otp_and_get_user_status
otp_matches(row, phone, otp) ==
  /\ row.phone_number = phone
  /\ row.otp = otp
  /\ row.is_verified = FALSE
  /\ row.expires_at > now

\* .first() without ORDER BY: any matching row may be returned
valid_otp_ids(phone, otp) ==
  {i \in DOMAIN phone_otps : otp_matches(phone_otps[i], phone, otp)}

practitioner_by_phone(phone) ==
  IF \E i \in DOMAIN practitioners : practitioners[i].phone_number = phone
  THEN CHOOSE i \in DOMAIN practitioners : practitioners[i].phone_number = phone
  ELSE None

Result(success, error, is_new_user, needs_onboarding, practitioner_id, step, completed) ==
  [success |-> success, error |-> error, is_new_user |-> is_new_user,
   needs_onboarding |-> needs_onboarding, practitioner_id |-> practitioner_id,
   onboarding_step |-> step, crm_onboarding_completed |-> completed]

FailedResult(error) == Result(FALSE, error, FALSE, FALSE, None, 0, FALSE)

\* mutant: the refusal tells an expired code from a wrong or used one
no_otp_record_explains(phone, otp) ==
  IF \E i \in DOMAIN phone_otps :
       /\ phone_otps[i].phone_number = phone /\ phone_otps[i].otp = otp
       /\ phone_otps[i].is_verified = FALSE
  THEN FailedResult("OTP expired")
  ELSE FailedResult("Invalid or expired OTP")

\* "if not otp_record": one result whatever kept the filter from matching
no_otp_record(phone, otp) == FailedResult("Invalid or expired OTP")

\* mutant: practitioners.phone_number has no unique index
insert_conflicts_never(phone) == FALSE

\* the INSERT of a practitioner fails on the unique phone_number when another
\* session committed one for the same phone after this session looked it up
insert_conflicts(phone) == practitioner_by_phone(phone) # None

\* mutant: the new practitioner's id is read before the INSERT assigned it
verify_result_stale_id(phone, seen, snap) ==
  IF seen = None
  THEN IF insert_conflicts(phone)
       THEN FailedResult("Failed to verify OTP")
       ELSE Result(TRUE, "", TRUE, TRUE, Len(practitioners), 0, FALSE)
  ELSE Result(TRUE, "", FALSE, ~snap.crm_onboarding_completed, seen,
              snap.onboarding_step, snap.crm_onboarding_completed)

\* What verify_otp_and_get_user_status returns once an OTP row matched.
\* seen is the practitioner id its lookup found (None when absent) and snap the
\* row as loaded by that lookup.
verify_result(phone, seen, snap) ==
  IF seen = None
  THEN IF insert_conflicts(phone)
       THEN FailedResult("Failed to verify OTP")
       ELSE Result(TRUE, "", TRUE, TRUE, Len(practitioners) + 1, 0, FALSE)
  ELSE IF snap.crm_first_login_date = FALSE
       \* attributes are reloaded after the commit
       THEN Result(TRUE, "", FALSE, ~snap.crm_onboarding_completed, seen,
                   practitioners[seen].onboarding_step,
                   practitioners[seen].crm_onboarding_completed)
       ELSE Result(TRUE, "", FALSE, ~snap.crm_onboarding_completed, seen,
                   snap.onboarding_step, snap.crm_onboarding_completed)

mark_verified(otp_id) ==
  phone_otps' = [phone_otps EXCEPT ![otp_id].is_verified = TRUE]

count_use(otp_id) ==
  otp_uses' = [otp_uses EXCEPT ![otp_id] = IF @ < MaxUses THEN @ + 1 ELSE @]

\* What verify_otp_and_get_user_status leaves in the tables once an OTP row
\* matched: the pending is_verified = True reaches the table only where the
\* session is committed.
verify_commit(otp_id, phone, seen, snap) ==
  IF seen = None
  THEN IF insert_conflicts(phone)
       THEN UNCHANGED <<dbvars, otp_uses>>
       ELSE /\ mark_verified(otp_id)
            /\ practitioners' = Append(practitioners, Practitioner(phone, TRUE))
            /\ step_records' = Append(step_records, NoSteps)
            /\ work_experience' = Append(work_experience, 0)
            /\ certifications' = Append(certifications, 0)
            /\ count_use(otp_id)
  ELSE IF snap.crm_first_login_date = FALSE
       THEN /\ mark_verified(otp_id)
            /\ practitioners' = [practitioners EXCEPT ![seen].crm_first_login_date = TRUE]
            /\ count_use(otp_id)
            /\ UNCHANGED <<step_records, work_experience, certifications>>
       ELSE \* no commit: the session closes and rolls the flag back
            /\ count_use(otp_id)
            /\ UNCHANGED dbvars

\* mutant: every successful verification is answered with an onboarding token
verify_token_always_temp(phone, result) ==
  IF ~result.success THEN NoToken
  ELSE generate_temp_token(phone, result.practitioner_id)

\* routes/phone_auth_routes.py verify_otp: the three-way branch on the result
verify_token(phone, result) ==
  IF ~result.success THEN NoToken
  ELSE IF result.is_new_user \/ result.needs_onboarding
       THEN generate_temp_token(phone, result.practitioner_id)
       ELSE generate_auth_token(result.practitioner_id, phone)

verify_response(phone, result) ==
  IF ~result.success THEN ErrorResponse(400, result.error)
  ELSE IF result.is_new_user
       THEN [Response(200, "", "onboarding", 1, None, verify_token(phone, result), FALSE)
               EXCEPT !.is_new_user = TRUE]
  ELSE IF result.needs_onboarding
       THEN Response(200, "", "onboarding", result.onboarding_step + 1, None,
                     verify_token(phone, result), FALSE)
       ELSE Response(200, "", "dashboard", None, None, verify_token(phone, result), FALSE)

(* ------------------------- onboarding saves ---------------------------- *)
\* get_facilitator_onboarding_status: the counter and the presence of the rows
get_facilitator_onboarding_status(practitioner_id) ==
  IF practitioner_id \notin DOMAIN practitioners
  THEN [error |-> "Practitioner not found", current_step |-> 0,
        completed_steps |-> [n \in Steps |-> FALSE]]
  ELSE [error |-> "",
        current_step |-> practitioners[practitioner_id].onboarding_step,
        completed_steps |->
          [n \in Steps |->
             IF n < TOTAL_STEPS THEN step_records[practitioner_id][n] # None
             ELSE work_experience[practitioner_id] > 0 \/ certifications[practitioner_id] > 0]]

\* mutant: the step-3 route checks for step 1 instead of step 2
required_step_lax(n) ==
  CASE n = 2 -> 1
    [] n = 3 -> 1
    [] n = 4 -> 3
    [] n = 5 -> 4
    [] OTHER -> 0

\* mutant: the step-5 route asks for step 3 only
required_step_skips_4(n) ==
  CASE n = 2 -> 1
    [] n = 3 -> 2
    [] n = 4 -> 3
    [] n = 5 -> 3
    [] OTHER -> 0

\* the route of step n (2..5) answers 400 when current_step is below this
required_step(n) ==
  CASE n = 2 -> 1
    [] n = 3 -> 2
    [] n = 4 -> 3
    [] n = 5 -> 4
    [] OTHER -> 0

\* mutant: the counter is assigned without the "< n" test
advance_step_unconditional(n, onboarding_step) == n

\* save_basic_info .. save_bio_about: "if practitioner.onboarding_step < n: ... = n"
advance_step(n, onboarding_step) ==
  IF onboarding_step < n THEN n ELSE onboarding_step

\* mutant: the final save stores the number of the step, 5
complete_onboarding_at_5(row) ==
  [row EXCEPT !.onboarding_step = TOTAL_STEPS, !.crm_onboarding_completed = TRUE]

\* mutant: the final save advances the counter but leaves the flag
complete_onboarding_without_flag(row) ==
  [row EXCEPT !.onboarding_step = FINAL_STEP]

\* save_experience_certifications: what it writes to the practitioner row
complete_onboarding(row) ==
  [row EXCEPT !.onboarding_step = FINAL_STEP, !.crm_onboarding_completed = TRUE]

\* mutant: a step that already has its row keeps the data of the first save
save_step_commit_keeps_data(n, practitioner_id, payload, seen_step) ==
  /\ step_records' = [step_records EXCEPT ![practitioner_id][n] =
                        IF @ = None THEN payload ELSE @]
  /\ practitioners' =
       [practitioners EXCEPT
          ![practitioner_id].onboarding_step =
             IF advance_step(n, seen_step) # seen_step
             THEN advance_step(n, seen_step) ELSE @,
          ![practitioner_id].name = IF n = 1 THEN payload ELSE @]
  /\ UNCHANGED <<phone_otps, work_experience, certifications>>

\* save_basic_info, save_visual_profile, save_professional_details, save_bio_about:
\* upsert of the step's row and the counter update, committed together.
\* seen_step is the onboarding_step the session loaded.
save_step_commit(n, practitioner_id, payload, seen_step) ==
  /\ step_records' = [step_records EXCEPT ![practitioner_id][n] = payload]
  /\ practitioners' =
       [practitioners EXCEPT
          \* the UPDATE names the column only when the attribute was changed
          ![practitioner_id].onboarding_step =
             IF advance_step(n, seen_step) # seen_step
             THEN advance_step(n, seen_step) ELSE @,
          ![practitioner_id].name = IF n = 1 THEN payload ELSE @]
  /\ UNCHANGED <<phone_otps, work_experience, certifications>>

\* mutant: the DELETE statements of step 5 carry no practitioner_id filter
save_experience_certifications_unfiltered(practitioner_id, experience_data, certification_data) ==
  /\ work_experience' = [i \in DOMAIN work_experience |->
                           IF i = practitioner_id THEN experience_data ELSE 0]
  /\ certifications' = [i \in DOMAIN certifications |->
                          IF i = practitioner_id THEN certification_data ELSE 0]
  /\ practitioners' =
       [practitioners EXCEPT ![practitioner_id] = complete_onboarding(@)]
  /\ UNCHANGED <<phone_otps, step_records>>

\* save_experience_certifications: delete all rows, add the submitted ones,
\* complete the practitioner, commit
save_experience_certifications(practitioner_id, experience_data, certification_data) ==
  /\ work_experience' = [work_experience EXCEPT ![practitioner_id] = experience_data]
  /\ certifications' = [certifications EXCEPT ![practitioner_id] = certification_data]
  /\ practitioners' =
       [practitioners EXCEPT ![practitioner_id] = complete_onboarding(@)]
  /\ UNCHANGED <<phone_otps, step_records>>

\* mutant: the step-5 answer carries no token
step_response_without_token(n, phone, facilitator_id) ==
  IF n < TOTAL_STEPS
  THEN Response(200, "", "", n, n + 1, NoToken, FALSE)
  ELSE Response(200, "", "dashboard", TOTAL_STEPS, None, NoToken, TRUE)

\* the 200 answers of the step routes
step_response(n, phone, facilitator_id) ==
  IF n < TOTAL_STEPS
  THEN Response(200, "", "", n, n + 1, NoToken, FALSE)
  ELSE Response(200, "", "dashboard", TOTAL_STEPS, None,
                generate_auth_token(facilitator_id, phone), TRUE)

(* ------------------------- website publishing -------------------------- *)
\* mutant: only published websites count as holders of a subdomain
check_subdomain_exists_published(subdomain) ==
  \E i \in DOMAIN practitioners :
    /\ practitioners[i].subdomain # NoSubdomain
    /\ practitioners[i].website_published
    /\ lower(practitioners[i].subdomain) = lower(subdomain)

\* func.lower(Practitioner.subdomain) == func.lower(subdomain); a NULL column
\* compares to nothing
check_subdomain_exists(subdomain) ==
  \E i \in DOMAIN practitioners :
    /\ practitioners[i].subdomain # NoSubdomain
    /\ lower(practitioners[i].subdomain) = lower(subdomain)

\* mutant: the subdomain column has no unique index
subdomain_conflicts_never(facilitator_id, subdomain) == FALSE

\* the UPDATE fails on the unique subdomain column when another practitioner's
\* row already holds the value to be written
subdomain_conflicts(facilitator_id, subdomain) ==
  \E i \in DOMAIN practitioners :
    /\ i # facilitator_id
    /\ lower(subdomain) # NoSubdomain
    /\ practitioners[i].subdomain = lower(subdomain)

\* update_facilitator_website raises: ValueError for an unknown practitioner,
\* IntegrityError (after rollback) for a taken subdomain
update_facilitator_website_raises(facilitator_id, subdomain) ==
  \/ facilitator_id \notin DOMAIN practitioners
  \/ subdomain_conflicts(facilitator_id, subdomain)

update_facilitator_website(facilitator_id, subdomain, is_published) ==
  /\ practitioners' =
       [practitioners EXCEPT
          ![facilitator_id].subdomain = lower(subdomain),
          ![facilitator_id].website_published = is_published,
          ![facilitator_id].website_status = IF is_published THEN "live" ELSE "draft"]
  /\ UNCHANGED <<phone_otps, step_records, work_experience, certifications>>

(* --------------------- Spec: one request at a time --------------------- *)
\* mutant: the OTP row is stored only once the SMS has gone out
SendOtpAfterSms(phone, otp, sms_ok) ==
  /\ Len(phone_otps) < MaxOtps
  /\ IF sms_ok
     THEN create_otp_commit(create_otp_marks(phone), phone, otp)
     ELSE UNCHANGED <<phone_otps, otp_uses>>
  /\ last' = [req |-> Request("send-otp", phone, None, NoToken, None),
              resp |-> IF sms_ok
                       THEN Response(200, "", "", None, None, NoToken, FALSE)
                       ELSE ErrorResponse(500, "Failed to send SMS. Please try again.")]
  /\ UNCHANGED <<now, practitioners, step_records, work_experience, certifications,
                 held_tokens, inflight>>

SendOtp(phone, otp, sms_ok) ==
  /\ Len(phone_otps) < MaxOtps
  /\ create_otp_commit(create_otp_marks(phone), phone, otp)
  /\ last' = [req |-> Request("send-otp", phone, None, NoToken, None),
              resp |-> IF sms_ok
                       THEN Response(200, "", "", None, None, NoToken, FALSE)
                       ELSE ErrorResponse(500, "Failed to send SMS. Please try again.")]
  /\ UNCHANGED <<now, practitioners, step_records, work_experience, certifications,
                 held_tokens, inflight>>

\* mutant: a refused verify-otp marks the rows that carry the code as used
VerifyOtpBurnsCode(phone, otp) ==
  /\ IF valid_otp_ids(phone, otp) = {}
     THEN /\ last' = [req |-> Request("verify-otp", phone, otp, NoToken, None),
                      resp |-> verify_response(phone, no_otp_record(phone, otp))]
          /\ phone_otps' = [i \in DOMAIN phone_otps |->
               IF phone_otps[i].phone_number = phone /\ phone_otps[i].otp = otp
               THEN [phone_otps[i] EXCEPT !.is_verified = TRUE]
               ELSE phone_otps[i]]
          /\ UNCHANGED <<practitioners, step_records, work_experience, certifications,
                         otp_uses, held_tokens>>
     ELSE \E otp_id \in valid_otp_ids(phone, otp) :
            LET seen == practitioner_by_phone(phone)
                snap == IF seen = None THEN Practitioner(phone, FALSE) ELSE practitioners[seen]
                result == verify_result(phone, seen, snap)
            IN /\ verify_commit(otp_id, phone, seen, snap)
               /\ last' = [req |-> Request("verify-otp", phone, otp, NoToken, None),
                           resp |-> verify_response(phone, result)]
               /\ held_tokens' = Hold(held_tokens, verify_token(phone, result))
  /\ UNCHANGED <<now, inflight>>

VerifyOtp(phone, otp) ==
  /\ IF valid_otp_ids(phone, otp) = {}
     THEN /\ last' = [req |-> Request("verify-otp", phone, otp, NoToken, None),
                      resp |-> verify_response(phone, no_otp_record(phone, otp))]
          /\ UNCHANGED <<dbvars, otp_uses, held_tokens>>
     ELSE \E otp_id \in valid_otp_ids(phone, otp) :
            LET seen == practitioner_by_phone(phone)
                snap == IF seen = None THEN Practitioner(phone, FALSE) ELSE practitioners[seen]
                result == verify_result(phone, seen, snap)
            IN /\ verify_commit(otp_id, phone, seen, snap)
               /\ last' = [req |-> Request("verify-otp", phone, otp, NoToken, None),
                           resp |-> verify_response(phone, result)]
               /\ held_tokens' = Hold(held_tokens, verify_token(phone, result))
  /\ UNCHANGED <<now, inflight>>

\* What the route of step n answers before it saves anything: the token guard,
\* then (steps 2..5) the status lookup and the order check.  NoResponse: go on.
step_refusal(n, token) ==
  LET onboarding_status == get_facilitator_onboarding_status(token.facilitator_id) IN
  IF ~onboarding_token_required(token)
  THEN onboarding_token_required_response(token)
  ELSE IF n > 1 /\ onboarding_status.error # ""
  THEN ErrorResponse(400, onboarding_status.error)
  ELSE IF n > 1 /\ onboarding_status.current_step < required_step(n)
  THEN ErrorResponse(400, "Please complete previous steps first")
  ELSE NoResponse

\* POST /onboarding/step1-basic-info .. step4-bio-about
SaveStep(n, token, payload) ==
  LET request == Request("save-step", None, None, token, n) IN
  /\ IF step_refusal(n, token) # NoResponse
     THEN /\ last' = [req |-> request, resp |-> step_refusal(n, token)]
          /\ UNCHANGED dbvars
     ELSE /\ save_step_commit(n, token.facilitator_id, payload,
                              practitioners[token.facilitator_id].onboarding_step)
          /\ last' = [req |-> request,
                      resp |-> step_response(n, token.phone_number, token.facilitator_id)]
  /\ UNCHANGED <<now, held_tokens, otp_uses, inflight>>

\* POST /onboarding/step5-experience-certifications
SaveStep5(token, experience_data, certification_data) ==
  LET request == Request("save-step", None, None, token, TOTAL_STEPS)
      response == step_response(TOTAL_STEPS, token.phone_number, token.facilitator_id)
  IN
  /\ IF step_refusal(TOTAL_STEPS, token) # NoResponse
     THEN /\ last' = [req |-> request, resp |-> step_refusal(TOTAL_STEPS, token)]
          /\ UNCHANGED <<dbvars, held_tokens>>
     ELSE /\ save_experience_certifications(token.facilitator_id, experience_data,
                                            certification_data)
          /\ last' = [req |-> request, resp |-> response]
          /\ held_tokens' = Hold(held_tokens, response.token)
  /\ UNCHANGED <<now, otp_uses, inflight>>

\* POST /api/facilitator/publish-website
PublishWebsite(token, subdomain) ==
  LET facilitator_id == token.facilitator_id
      request == Request("publish-website", None, None, token, None)
  IN
  /\ IF ~token_required(token)
     THEN /\ last' = [req |-> request, resp |-> token_required_response(token)]
          /\ UNCHANGED dbvars
     ELSE IF ~re_match_subdomain(subdomain)
     THEN /\ last' = [req |-> request, resp |-> ErrorResponse(400, "Invalid subdomain")]
          /\ UNCHANGED dbvars
     ELSE IF check_subdomain_exists(subdomain)
     THEN /\ last' = [req |-> request, resp |-> ErrorResponse(400, "Subdomain taken")]
          /\ UNCHANGED dbvars
     ELSE IF update_facilitator_website_raises(facilitator_id, subdomain)
     THEN /\ last' = [req |-> request,
                      resp |-> ErrorResponse(500, "Failed to publish website")]
          /\ UNCHANGED dbvars
     ELSE /\ update_facilitator_website(facilitator_id, subdomain, TRUE)
          /\ last' = [req |-> request,
                      resp |-> [Response(200, "", "", None, None, NoToken, FALSE)
                                  EXCEPT !.subdomain = subdomain]]
  /\ UNCHANGED <<now, held_tokens, otp_uses, inflight>>

Tick ==
  /\ now + TickMinutes <= MaxNow
  /\ now' = now + TickMinutes
  /\ UNCHANGED <<dbvars, held_tokens, last, otp_uses, inflight>>

Idle == [pc |-> "idle", req |-> NoRequest, otp_id |-> None, seen |-> None,
         snap |-> Practitioner(None, FALSE), marks |-> {}, with |-> {},
         resp |-> NoResponse, data |-> <<>>, existing |-> FALSE]

(* ------------- SpecConc: requests served by worker slots --------------- *)
Busy(s) == inflight[s].pc \notin {"idle", "done"}

\* rows that sessions still open are going to insert
PendingOtps == Cardinality({s \in Slots : inflight[s].pc = "send:insert"})

Finish(s, resp) == [inflight[s] EXCEPT !.pc = "done", !.resp = resp]

\* verify-otp requests in flight on the same phone and code: this one overlaps them
Overlapping(s, phone, otp) ==
  {t \in Slots \ {s} : /\ inflight[t].pc \in {"verify:lookup", "verify:commit"}
                       /\ inflight[t].req.phone_number = phone
                       /\ inflight[t].req.otp = otp}

\* a slot that takes a new request is no longer the request others overlapped
Forget(s, slot) == [slot EXCEPT !.with = @ \ {s}]

\* send-otp up to and including create_otp's UPDATE statement
BeginSendOtp(s, phone, otp) ==
  /\ ~Busy(s)
  /\ Len(phone_otps) + PendingOtps < MaxOtps
  /\ inflight' = [t \in Slots |->
       IF t = s
       THEN [Idle EXCEPT !.pc = "send:insert",
                         !.req = Request("send-otp", phone, otp, NoToken, None),
                         !.marks = create_otp_marks(phone)]
       ELSE Forget(s, inflight[t])]
  /\ UNCHANGED <<now, dbvars, held_tokens, last, otp_uses>>

\* create_otp's INSERT and commit, then the SMS and the response
CommitSendOtp(s, sms_ok) ==
  /\ inflight[s].pc = "send:insert"
  /\ create_otp_commit(inflight[s].marks, inflight[s].req.phone_number, inflight[s].req.otp)
  /\ inflight' = [inflight EXCEPT ![s] =
       Finish(s, IF sms_ok
                 THEN Response(200, "", "", None, None, NoToken, FALSE)
                 ELSE ErrorResponse(500, "Failed to send SMS. Please try again."))]
  /\ UNCHANGED <<now, practitioners, step_records, work_experience, certifications,
                 held_tokens, last>>

\* verify-otp up to and including the SELECT of the OTP row
BeginVerifyOtp(s, phone, otp) ==
  /\ ~Busy(s)
  /\ IF valid_otp_ids(phone, otp) = {}
     THEN inflight' = [t \in Slots |->
            IF t = s
            THEN [Idle EXCEPT !.pc = "done",
                              !.req = Request("verify-otp", phone, otp, NoToken, None),
                              !.resp = verify_response(phone, no_otp_record(phone, otp))]
            ELSE Forget(s, inflight[t])]
     ELSE \E otp_id \in valid_otp_ids(phone, otp) :
            inflight' = [t \in Slots |->
              IF t = s
              THEN [Idle EXCEPT !.pc = "verify:lookup",
                                !.req = Request("verify-otp", phone, otp, NoToken, None),
                                !.otp_id = otp_id,
                                !.with = Overlapping(s, phone, otp)]
              ELSE IF t \in Overlapping(s, phone, otp)
                   THEN [inflight[t] EXCEPT !.with = (@ \ {s}) \cup {s}]
                   ELSE Forget(s, inflight[t])]
  /\ UNCHANGED <<now, dbvars, held_tokens, last, otp_uses>>

\* the SELECT of the practitioner by phone
LookupVerifyOtp(s) ==
  /\ inflight[s].pc = "verify:lookup"
  /\ LET seen == practitioner_by_phone(inflight[s].req.phone_number) IN
     inflight' = [inflight EXCEPT
       ![s].pc = "verify:commit",
       ![s].seen = seen,
       ![s].snap = IF seen = None THEN Practitioner(inflight[s].req.phone_number, FALSE)
                   ELSE practitioners[seen]]
  /\ UNCHANGED <<now, dbvars, held_tokens, last, otp_uses>>

\* the commit (or the close without one), then the route's response
CommitVerifyOtp(s) ==
  /\ inflight[s].pc = "verify:commit"
  /\ LET phone == inflight[s].req.phone_number
         result == verify_result(phone, inflight[s].seen, inflight[s].snap)
     IN /\ verify_commit(inflight[s].otp_id, phone, inflight[s].seen, inflight[s].snap)
        /\ inflight' = [inflight EXCEPT ![s] = Finish(s, verify_response(phone, result))]
        /\ held_tokens' = Hold(held_tokens, verify_token(phone, result))
  /\ UNCHANGED <<now, last>>

(* --------------------------- initial states ---------------------------- *)
\* An account as the tables hold it: the practitioner row and its step rows.
Account(row, steps, experience, certs) ==
  [row |-> row, steps |-> steps, experience |-> experience, certs |-> certs]

\* a lead the calling pipeline stored: never logged in
LeadAccount(phone) == Account(Practitioner(phone, FALSE), NoSteps, 0, 0)

\* signed up through verify-otp, steps 1 and 2 saved
PartialAccount(phone) ==
  Account([Practitioner(phone, TRUE) EXCEPT !.onboarding_step = 2, !.name = 1],
          [n \in 1..4 |-> IF n <= 2 THEN 1 ELSE None], 0, 0)

\* signed up through verify-otp, steps 1..5 saved
CompleteAccount(phone) ==
  Account(complete_onboarding([Practitioner(phone, TRUE) EXCEPT !.onboarding_step = 4,
                                                               !.name = 1]),
          [n \in 1..4 |-> 1], 1, 0)

\* signed up through verify-otp, steps 1..4 saved, step 5 still to come
ReadyAccount(phone) ==
  Account([Practitioner(phone, TRUE) EXCEPT !.onboarding_step = 4, !.name = 1],
          [n \in 1..4 |-> 1], 0, 0)

ProfileAccount(profile, phone) ==
  CASE profile = "lead" -> LeadAccount(phone)
    [] profile = "partial" -> PartialAccount(phone)
    [] profile = "ready" -> ReadyAccount(phone)
    [] OTHER -> CompleteAccount(phone)

RECURSIVE AccountsFrom(_, _)
AccountsFrom(profile, phone) ==
  IF phone > NPhones THEN <<>>
  ELSE (IF profile[phone] = "none" THEN <<>>
        ELSE <<ProfileAccount(profile[phone], phone)>>) \o AccountsFrom(profile, phone + 1)

InitWith(accounts) ==
  /\ now = 0
  /\ phone_otps = <<>>
  /\ practitioners = [i \in DOMAIN accounts |-> accounts[i].row]
  /\ step_records = [i \in DOMAIN accounts |-> accounts[i].steps]
  /\ work_experience = [i \in DOMAIN accounts |-> accounts[i].experience]
  /\ certifications = [i \in DOMAIN accounts |-> accounts[i].certs]
  /\ held_tokens = {}
  /\ last = [req |-> NoRequest, resp |-> NoResponse]
  /\ otp_uses = <<>>
  /\ inflight = [s \in Slots |-> Idle]

\* Identity flow: every phone is unknown, a lead, partially or fully onboarded.
\* OTP rows of earlier logins are verified or expired, match no filter any more
\* and are left out.
Init ==
  \E profile \in [Phones -> {"none", "lead", "partial", "complete"}] :
    InitWith(AccountsFrom(profile, 1))

\* Onboarding flow: an empty system, but for leads of the calling pipeline.
InitOnb ==
  \E profile \in [Phones -> {"none", "lead"}] : InitWith(AccountsFrom(profile, 1))

(* Spec: the identity flow, one request at a time *)
Next ==
  \/ \E phone \in Phones, otp \in generate_otp, sms_ok \in BOOLEAN : SendOtp(phone, otp, sms_ok)
  \/ \E phone \in Phones, otp \in Codes : VerifyOtp(phone, otp)
  \/ Tick

Spec == Init /\ [][Next]_vars

(* SpecOnb: sign-up, onboarding and publishing, one request at a time *)
NextOnb ==
  \/ \E phone \in Phones, otp \in generate_otp, sms_ok \in BOOLEAN : SendOtp(phone, otp, sms_ok)
  \/ \E phone \in Phones, otp \in Codes : VerifyOtp(phone, otp)
  \/ \E n \in 1..4, token \in held_tokens, payload \in Payloads : SaveStep(n, token, payload)
  \/ \E token \in held_tokens, experience_data \in 0..MaxRows,
        certification_data \in 0..MaxRows :
       SaveStep5(token, experience_data, certification_data)
  \/ \E token \in held_tokens, subdomain \in Subdomains : PublishWebsite(token, subdomain)

SpecOnb == InitOnb /\ [][NextOnb]_vars

(* SpecConc: the identity flow with requests interleaved, within one OTP lifetime *)
NextConc ==
  \/ \E s \in Slots, phone \in Phones, otp \in generate_otp : BeginSendOtp(s, phone, otp)
  \/ \E s \in Slots, sms_ok \in BOOLEAN : CommitSendOtp(s, sms_ok)
  \/ \E s \in Slots, phone \in Phones, otp \in Codes : BeginVerifyOtp(s, phone, otp)
  \/ \E s \in Slots : LookupVerifyOtp(s)
  \/ \E s \in Slots : CommitVerifyOtp(s)

SpecConc == Init /\ [][NextConc]_vars

(* ------ SpecGuard: the endpoints called with any bearer token, over ------- *)
(* ------ the lifetime of the tokens                                  ------- *)
\* tokens whose signature does not verify under JWT_SECRET
ForgedTokens ==
  {[generate_auth_token(1, 1) EXCEPT !.signed = FALSE],
   [generate_temp_token(1, 1) EXCEPT !.signed = FALSE]}

\* what a client can put in the Authorization header: a token it was given, a
\* token it made up, or nothing
Presented == held_tokens \cup ForgedTokens \cup {NoToken}

\* the clock passes the lifetime of an onboarding token or of an auth token,
\* once in a behaviour
Elapse(minutes) ==
  /\ now = 0
  /\ now' = now + minutes
  /\ UNCHANGED <<dbvars, held_tokens, last, otp_uses, inflight>>

NextGuard ==
  \/ \E phone \in Phones, otp \in generate_otp, sms_ok \in BOOLEAN : SendOtp(phone, otp, sms_ok)
  \/ \E phone \in Phones, otp \in Codes : VerifyOtp(phone, otp)
  \/ \E token \in Presented, experience_data \in 0..MaxRows,
        certification_data \in 0..MaxRows :
       SaveStep5(token, experience_data, certification_data)
  \/ \E token \in Presented, subdomain \in Subdomains : PublishWebsite(token, subdomain)
  \/ \E minutes \in {TEMP_TOKEN_MINUTES, AUTH_TOKEN_MINUTES} : Elapse(minutes)

\* every phone has an account that can log in: the first is one step short of
\* complete, the others are complete
InitGuard ==
  \E profile \in {[phone \in Phones |-> IF phone = 1 THEN "ready" ELSE "complete"]} : InitWith(AccountsFrom(profile, 1))

SpecGuard == InitGuard /\ [][NextGuard]_vars

(* ---- SpecFail: the onboarding saves when the database raises an error ---- *)
\* the route's 500 answer when the save_* method returned False
save_failed_error(n) ==
  CASE n = 1 -> "Failed to save basic information"
    [] n = 2 -> "Failed to save visual profile"
    [] n = 3 -> "Failed to save professional details"
    [] n = 4 -> "Failed to save bio and about information"
    [] OTHER -> "Failed to save experience and certifications"

\* an exception inside "with get_session() as session": the session is closed
\* without commit and the pending writes of the save are rolled back
session_close(n, practitioner_id, payload) == UNCHANGED dbvars

\* where the request of step n meets the database error: in the route's status
\* lookup (steps 2..5), in the save, or (step 5) in the read of the profile for
\* the response, after the save committed
FailurePoints(n) ==
  (IF n > 1 THEN {"status"} ELSE {}) \cup {"save"}
    \cup (IF n = TOTAL_STEPS THEN {"profile"} ELSE {})

\* steps 1..4 with a database error at the given point
SaveStepFails(n, token, payload, point) ==
  /\ onboarding_token_required(token)
  /\ point \in FailurePoints(n)
  /\ IF point = "status"
     THEN /\ last' = [req |-> Request("save-step", None, None, token, n),
                      resp |-> ErrorResponse(400, "Failed to get onboarding status")]
          /\ UNCHANGED dbvars
     ELSE /\ step_refusal(n, token) = NoResponse
          /\ session_close(n, token.facilitator_id, payload)
          /\ last' = [req |-> Request("save-step", None, None, token, n),
                      resp |-> ErrorResponse(500, save_failed_error(n))]
  /\ UNCHANGED <<now, held_tokens, otp_uses, inflight>>

\* step 5 with a database error at the given point
SaveStep5Fails(token, experience_data, certification_data, point) ==
  LET request == Request("save-step", None, None, token, TOTAL_STEPS) IN
  /\ onboarding_token_required(token)
  /\ point \in FailurePoints(TOTAL_STEPS)
  /\ CASE point = "status" ->
            /\ last' = [req |-> request,
                        resp |-> ErrorResponse(400, "Failed to get onboarding status")]
            /\ UNCHANGED dbvars
       [] point = "save" ->
            /\ step_refusal(TOTAL_STEPS, token) = NoResponse
            /\ session_close(TOTAL_STEPS, token.facilitator_id, experience_data)
            /\ last' = [req |-> request,
                        resp |-> ErrorResponse(500, save_failed_error(TOTAL_STEPS))]
       [] OTHER ->
            \* get_complete_facilitator_profile returns None and the route's
            \* complete_profile.get raises, after the save committed
            /\ step_refusal(TOTAL_STEPS, token) = NoResponse
            /\ save_experience_certifications(token.facilitator_id, experience_data,
                                              certification_data)
            /\ last' = [req |-> request, resp |-> ErrorResponse(500, "Internal server error")]
  /\ UNCHANGED <<now, held_tokens, otp_uses, inflight>>

NextFail ==
  \/ \E phone \in Phones, otp \in generate_otp, sms_ok \in BOOLEAN : SendOtp(phone, otp, sms_ok)
  \/ \E phone \in Phones, otp \in Codes : VerifyOtp(phone, otp)
  \/ \E n \in 1..4, token \in held_tokens, payload \in Payloads : SaveStep(n, token, payload)
  \/ \E token \in held_tokens, experience_data \in 0..MaxRows,
        certification_data \in 0..MaxRows :
       SaveStep5(token, experience_data, certification_data)
  \/ \E n \in 1..4 : \E token \in held_tokens, payload \in Payloads,
                        point \in FailurePoints(n) :
       SaveStepFails(n, token, payload, point)
  \/ \E token \in held_tokens, experience_data \in 0..MaxRows,
        certification_data \in 0..MaxRows, point \in FailurePoints(TOTAL_STEPS) :
       SaveStep5Fails(token, experience_data, certification_data, point)

SpecFail == InitOnb /\ [][NextFail]_vars

(* -- SpecConcOnb: onboarding-step requests served by worker slots, one -- *)
(* -- step per transaction of the route and per statement of the save  -- *)
\* the route of step n up to its order check: the token guard and the status
\* lookup, a transaction of its own
BeginStep(s, n, token) ==
  /\ ~Busy(s)
  /\ inflight' = [t \in Slots |->
       IF t = s
       THEN IF step_refusal(n, token) # NoResponse
            THEN [Idle EXCEPT !.pc = "done",
                              !.req = Request("save-step", None, None, token, n),
                              !.resp = step_refusal(n, token)]
            ELSE [Idle EXCEPT !.pc = "step:existing",
                              !.req = Request("save-step", None, None, token, n)]
       ELSE Forget(s, inflight[t])]
  /\ UNCHANGED <<now, dbvars, held_tokens, last, otp_uses>>

\* the save's first statement: the SELECT of the step's row (steps 1..4), the
\* DELETE of the practitioner's experience and certification rows (step 5),
\* which stays invisible to others until the commit
ExistingStep(s, data) ==
  /\ inflight[s].pc = "step:existing"
  /\ LET n == inflight[s].req.step
         practitioner_id == inflight[s].req.token.facilitator_id
     IN inflight' = [inflight EXCEPT
          ![s].pc = "step:practitioner",
          ![s].data = data,
          ![s].existing = IF n < TOTAL_STEPS
                          THEN step_records[practitioner_id][n] # None ELSE FALSE]
  /\ UNCHANGED <<now, dbvars, held_tokens, last, otp_uses>>

\* the SELECT of the practitioner
PractitionerStep(s) ==
  /\ inflight[s].pc = "step:practitioner"
  /\ inflight' = [inflight EXCEPT
       ![s].pc = "step:commit",
       ![s].seen = inflight[s].req.token.facilitator_id,
       ![s].snap = practitioners[inflight[s].req.token.facilitator_id]]
  /\ UNCHANGED <<now, dbvars, held_tokens, last, otp_uses>>

\* mutant: the step tables accept a second row for the practitioner
step_insert_conflicts_never(s) == FALSE

\* the INSERT of a step row fails on the unique practitioner_id when another
\* session committed the row after this session looked for it
step_insert_conflicts(s) ==
  /\ inflight[s].req.step < TOTAL_STEPS
  /\ ~inflight[s].existing
  /\ step_records[inflight[s].req.token.facilitator_id][inflight[s].req.step] # None

\* the commit of the save, then the route's response
CommitStep(s) ==
  /\ inflight[s].pc = "step:commit"
  /\ LET n == inflight[s].req.step
         token == inflight[s].req.token
         response == step_response(n, token.phone_number, token.facilitator_id)
     IN IF step_insert_conflicts(s)
        THEN /\ inflight' = [inflight EXCEPT ![s] =
                   Finish(s, ErrorResponse(500, save_failed_error(n)))]
             /\ UNCHANGED <<dbvars, held_tokens>>
        ELSE /\ IF n < TOTAL_STEPS
                THEN save_step_commit(n, token.facilitator_id, inflight[s].data[1],
                                      inflight[s].snap.onboarding_step)
                ELSE save_experience_certifications(token.facilitator_id,
                                                    inflight[s].data[1], inflight[s].data[2])
             /\ inflight' = [inflight EXCEPT ![s] = Finish(s, response)]
             /\ held_tokens' = Hold(held_tokens, response.token)
  /\ UNCHANGED <<now, last, otp_uses>>

StepData(n) ==
  IF n < TOTAL_STEPS THEN {<<payload>> : payload \in Payloads}
  ELSE (0..MaxRows) \X (0..MaxRows)

\* the tables right after a new user signed up: send-otp, then verify-otp, for
\* a phone without practitioner; the client holds the onboarding token
InitConcOnb ==
  \E phone \in Phones, otp \in generate_otp :
    /\ now = 0
    /\ phone_otps = <<[PhoneOTP(phone, otp, OTP_TTL_MINUTES) EXCEPT !.is_verified = TRUE]>>
    /\ practitioners = <<Practitioner(phone, TRUE)>>
    /\ step_records = <<NoSteps>>
    /\ work_experience = <<0>>
    /\ certifications = <<0>>
    /\ held_tokens = {[generate_temp_token(phone, 1) EXCEPT !.exp = TEMP_TOKEN_MINUTES]}
    /\ last = [req |-> Request("verify-otp", phone, otp, NoToken, None),
               resp |-> [Response(200, "", "onboarding", 1, None,
                                  [generate_temp_token(phone, 1)
                                     EXCEPT !.exp = TEMP_TOKEN_MINUTES], FALSE)
                           EXCEPT !.is_new_user = TRUE]]
    /\ otp_uses = <<1>>
    /\ inflight = [s \in Slots |-> Idle]

NextConcOnb ==
  \/ \E s \in Slots, n \in Steps, token \in held_tokens : BeginStep(s, n, token)
  \/ \E s \in Slots : \E data \in StepData(inflight[s].req.step) : ExistingStep(s, data)
  \/ \E s \in Slots : PractitionerStep(s)
  \/ \E s \in Slots : CommitStep(s)

SpecConcOnb == InitConcOnb /\ [][NextConcOnb]_vars

(* ---- SpecResave: one signed-up practitioner saves and re-saves steps ---- *)
\* what a client submits for a step: its data, or a revision of it
Revisions == 1..(NPayloads + 1)

NextResave ==
  \/ \E n \in 1..4, token \in held_tokens, payload \in Revisions : SaveStep(n, token, payload)
  \/ \E token \in held_tokens, experience_data \in 0..MaxRows,
        certification_data \in 0..MaxRows :
       SaveStep5(token, experience_data, certification_data)

SpecResave == InitConcOnb /\ [][NextResave]_vars

(* ------------- tenant resolution: the subdomain middleware ------------- *)
\* the labels get_subdomain_from_host ignores under each base domain
reserved_subdomains(base) ==
  IF base = <<".", "a", "h", "o", "u", "m", ".", "c", "o", "m">>
  THEN {<<"w", "w", "w">>, <<"a", "p", "i">>,
        <<"f", "a", "c", "i", "l", "i", "t", "a", "t", "o", "r", "C", "R", "M">>}
  ELSE {<<"w", "w", "w">>, <<"a", "p", "i">>, <<"a", "d", "m", "i", "n">>}

\* the branch of one base domain: the suffix is cut out with str.replace
subdomain_under(host_without_port, base) ==
  LET subdomain == replace(host_without_port, base) IN
  IF subdomain # <<>> /\ subdomain \notin reserved_subdomains(base)
  THEN subdomain
  ELSE NoSubdomain

get_subdomain_from_host(host) ==
  LET host_without_port == split_port(host) IN
  IF endswith(host_without_port, <<".", "a", "h", "o", "u", "m", ".", "c", "o", "m">>)
  THEN subdomain_under(host_without_port, <<".", "a", "h", "o", "u", "m", ".", "c", "o", "m">>)
  ELSE IF endswith(host_without_port, <<".", "l", "o", "c", "a", "l", "h", "o", "s", "t">>)
  THEN subdomain_under(host_without_port, <<".", "l", "o", "c", "a", "l", "h", "o", "s", "t">>)
  ELSE NoSubdomain

\* mutant: the lookup ignores website_published and is_active
get_practitioner_by_subdomain_any(subdomain) ==
  LET found == {i \in DOMAIN practitioners : practitioners[i].subdomain = subdomain}
  IN IF found = {} THEN None ELSE CHOOSE i \in found : \A j \in found : i <= j

\* .first() of the filter on subdomain, website_published and is_active: the id
\* of the row, None when no row matches (the unique column leaves at most one)
get_practitioner_by_subdomain(subdomain) ==
  LET found == {i \in DOMAIN practitioners :
                  /\ practitioners[i].subdomain = subdomain
                  /\ practitioners[i].website_published
                  /\ practitioners[i].is_active}
  IN IF found = {} THEN None ELSE CHOOSE i \in found : \A j \in found : i <= j

\* init_subdomain_middleware / before_request: what the request context g holds
before_request(host) ==
  LET subdomain == get_subdomain_from_host(host) IN
  [subdomain |-> subdomain,
   subdomain_practitioner |-> IF subdomain # NoSubdomain
                              THEN get_practitioner_by_subdomain(subdomain)
                              ELSE None]

require_valid_subdomain(g) ==
  g.subdomain # NoSubdomain /\ g.subdomain_practitioner # None

\* the 404 of require_valid_subdomain, in both of its branches
WebsiteNotFound ==
  [ErrorResponse(404, "Website not found")
     EXCEPT !.message = "This website is not published or does not exist"]

\* GET / on the public website blueprint, behind require_valid_subdomain
serve_public_website(g) ==
  IF ~require_valid_subdomain(g) THEN WebsiteNotFound
  ELSE IF g.subdomain_practitioner \notin DOMAIN practitioners
  \* get_complete_facilitator_profile returned None
  THEN [ErrorResponse(404, "Profile not found")
          EXCEPT !.message = "Practitioner profile data not available"]
  ELSE [Response(200, "", "", None, None, NoToken, FALSE)
          EXCEPT !.subdomain = g.subdomain, !.practitioner = g.subdomain_practitioner]

ServePublicWebsite(host) ==
  /\ last' = [req |-> [Request("public-website", None, None, NoToken, None)
                         EXCEPT !.host = host],
              resp |-> serve_public_website(before_request(host))]
  /\ UNCHANGED <<now, dbvars, held_tokens, otp_uses, inflight>>

(* ---- SpecTenant: publishing and the public website, one request at ---- *)
(* ---- a time                                                         ---- *)
\* the two base domains the middleware knows
BaseDomains == {<<".", "a", "h", "o", "u", "m", ".", "c", "o", "m">>,
                <<".", "l", "o", "c", "a", "l", "h", "o", "s", "t">>}

\* what follows the label in a Host header: a base domain, a base domain in
\* capitals, or a domain of somebody else
HostSuffixes ==
  BaseDomains \cup {<<".", "A", "H", "O", "U", "M", ".", "C", "O", "M">>,
                    <<".", "e", "x", "a", "m", "p", "l", "e", ".", "o", "r", "g">>}

HostLabels ==
  {<<"y", "o", "g", "a">>, <<"Y", "o", "g", "a">>, <<"z", "e", "n">>,
   <<"w", "w", "w">>, <<"a", "p", "i">>, <<"a", "d", "m", "i", "n">>,
   <<"y", "o", "g", "a", ".", "a", "h", "o", "u", "m", ".", "c", "o", "m">>}

Ports == {<<>>, <<":", "5", "0", "0", "0">>}

\* Host headers: label, suffix and optional port, and the bare domains
Hosts ==
  {label \o suffix \o port : label \in HostLabels, suffix \in HostSuffixes, port \in Ports}
    \cup {Tail(suffix) \o port : suffix \in HostSuffixes, port \in Ports}

RequestedSubdomains == {SubdomainNames[k] : k \in DOMAIN SubdomainNames}

\* subdomains that practitioners hold when the system starts
InitialSubdomains == <<<<"y", "o", "g", "a">>, <<"z", "e", "n">>>>

\* A practitioner through onboarding whose website is live, or as other writers
\* of the shared practitioners table leave the row: with a subdomain but not
\* published (draft), or published and soft-deactivated (inactive).
WebsiteAccount(profile, phone) ==
  LET account == CompleteAccount(phone) IN
  IF profile = "none" THEN account
  ELSE [account EXCEPT
          !.row.subdomain = InitialSubdomains[phone],
          !.row.website_published = (profile # "draft"),
          !.row.website_status = IF profile = "draft" THEN "draft" ELSE "live",
          !.row.is_active = (profile # "inactive")]

WebsiteProfiles(phone) ==
  IF phone \in DOMAIN InitialSubdomains THEN {"none", "live", "draft", "inactive"}
  ELSE {"none"}

InitTenant ==
  \E profile \in [Phones -> {"none", "live", "draft", "inactive"}] :
    /\ \A phone \in Phones : profile[phone] \in WebsiteProfiles(phone)
    /\ InitWith([phone \in Phones |-> WebsiteAccount(profile[phone], phone)])

\* every practitioner has logged in: the client holds the auth token
LoggedIn == {generate_auth_token(i, practitioners[i].phone_number) : i \in DOMAIN practitioners}

NextTenant ==
  \/ \E token \in LoggedIn, subdomain \in RequestedSubdomains :
       PublishWebsite(token, subdomain)
  \/ \E host \in Hosts : ServePublicWebsite(host)

SpecTenant == InitTenant /\ [][NextTenant]_vars

(* ---- SpecConcPub: publish-website requests in worker slots, one step ---- *)
(* ---- per repository call                                             ---- *)
\* publish_website up to and including check_subdomain_exists
BeginPublish(s, token, subdomain) ==
  LET request == [Request("publish-website", None, None, token, None)
                    EXCEPT !.subdomain = subdomain]
      refusal == IF ~token_required(token) THEN token_required_response(token)
                 ELSE IF ~re_match_subdomain(subdomain)
                 THEN ErrorResponse(400, "Invalid subdomain")
                 ELSE IF check_subdomain_exists(subdomain)
                 THEN ErrorResponse(400, "Subdomain taken")
                 ELSE NoResponse
  IN
  /\ ~Busy(s)
  /\ inflight' = [inflight EXCEPT ![s] =
       IF refusal # NoResponse
       THEN [Idle EXCEPT !.pc = "done", !.req = request, !.resp = refusal]
       ELSE [Idle EXCEPT !.pc = "publish:update", !.req = request]]
  /\ UNCHANGED <<now, dbvars, held_tokens, last, otp_uses>>

\* update_facilitator_website in its own session, then the route's response
CommitPublish(s) ==
  LET facilitator_id == inflight[s].req.token.facilitator_id
      subdomain == inflight[s].req.subdomain
  IN
  /\ inflight[s].pc = "publish:update"
  /\ IF update_facilitator_website_raises(facilitator_id, subdomain)
     THEN /\ inflight' = [inflight EXCEPT ![s] =
                 Finish(s, ErrorResponse(500, "Failed to publish website"))]
          /\ UNCHANGED dbvars
     ELSE /\ update_facilitator_website(facilitator_id, subdomain, TRUE)
          /\ inflight' = [inflight EXCEPT ![s] =
                 Finish(s, [Response(200, "", "", None, None, NoToken, FALSE)
                              EXCEPT !.subdomain = subdomain])]
  /\ UNCHANGED <<now, held_tokens, last, otp_uses>>

NextConcPub ==
  \/ \E s \in Slots, token \in LoggedIn, subdomain \in RequestedSubdomains :
       BeginPublish(s, token, subdomain)
  \/ \E s \in Slots : CommitPublish(s)

SpecConcPub == InitTenant /\ [][NextConcPub]_vars

(* ---- SpecSmsDown: the identity flow while send_sms returns False ---- *)
NextSmsDown ==
  \/ \E phone \in Phones, otp \in generate_otp : SendOtp(phone, otp, FALSE)
  \/ \E phone \in Phones, otp \in Codes : VerifyOtp(phone, otp)
  \/ Tick

SpecSmsDown == Init /\ [][NextSmsDown]_vars

(* =============================== claims ================================ *)
HasOtp(phone) == \E i \in DOMAIN phone_otps : phone_otps[i].phone_number = phone

\* the row the latest send-otp for the phone stored
LatestOtp(phone) ==
  CHOOSE i \in DOMAIN phone_otps :
    /\ phone_otps[i].phone_number = phone
    /\ \A j \in DOMAIN phone_otps : phone_otps[j].phone_number = phone => j <= i

PractitionersOf(table, phone) ==
  {i \in DOMAIN table : table[i].phone_number = phone}

\* C1: every stored OTP row lets verify-otp succeed at most once, whatever the
\* state of the phone's practitioner (unknown, lead, partially or fully onboarded).
C1_OtpVerifiedAtMostOnce ==
  \A i \in DOMAIN otp_uses : otp_uses[i] <= 1

\* C2: of two verify-otp requests on the same phone and code that overlap in
\* time and matched the same OTP row, at most one succeeds and gets a token.
C2_ConcurrentVerifyAtMostOneSucceeds ==
  \A s, t \in Slots :
    ( /\ s # t
      /\ t \in inflight[s].with
      /\ inflight[s].pc = "done" /\ inflight[t].pc = "done"
      /\ inflight[s].req.op = "verify-otp" /\ inflight[t].req.op = "verify-otp"
      /\ inflight[s].otp_id = inflight[t].otp_id )
    => ~(inflight[s].resp.status = 200 /\ inflight[t].resp.status = 200)

\* C3: once send-otp has stored code B for a phone, a verify-otp with any other
\* code A fails and changes nothing, while a verify-otp with B before B expires,
\* B not having been verified yet, succeeds.
C3_NewOtpInvalidatesOld ==
  [][\A phone \in Phones, otp \in Codes :
       (VerifyOtp(phone, otp) /\ HasOtp(phone)) =>
         LET b == phone_otps[LatestOtp(phone)] IN
           /\ (otp # b.otp) =>
                 /\ last'.resp.status = 400
                 /\ last'.resp.token = NoToken
                 /\ UNCHANGED <<dbvars, held_tokens>>
           /\ (otp = b.otp /\ now < b.expires_at /\ otp_uses[LatestOtp(phone)] = 0) =>
                 /\ last'.resp.status = 200
                 /\ last'.resp.token # NoToken]_vars

\* C3 witness: code A was superseded by code B, A is not expired, B is still
\* usable, and the verify-otp with A has just been refused.
C3_Witness ==
  \E phone \in Phones : \E i, j \in DOMAIN phone_otps :
    /\ HasOtp(phone)
    /\ i < j /\ j = LatestOtp(phone)
    /\ phone_otps[i].phone_number = phone
    /\ phone_otps[i].otp # phone_otps[j].otp
    /\ phone_otps[i].expires_at > now
    /\ phone_otps[j].is_verified = FALSE /\ phone_otps[j].expires_at > now
    /\ last.req.op = "verify-otp" /\ last.req.phone_number = phone
    /\ last.req.otp = phone_otps[i].otp
    /\ last.resp.status = 400

\* C4: at most one unverified, unexpired OTP row per phone, in every state.
C4_OneLiveOtpPerPhone ==
  \A phone \in Phones :
    Cardinality({i \in DOMAIN phone_otps :
                   /\ phone_otps[i].phone_number = phone
                   /\ phone_otps[i].is_verified = FALSE
                   /\ phone_otps[i].expires_at > now}) <= 1

\* C5: a verify-otp at or after expires_at of every row with that phone and code
\* fails, creates no practitioner and issues no token.
C5_ExpiredOtpFails ==
  [][\A phone \in Phones, otp \in Codes :
       ( /\ VerifyOtp(phone, otp)
         /\ \A i \in DOMAIN phone_otps :
              (phone_otps[i].phone_number = phone /\ phone_otps[i].otp = otp)
                => now >= phone_otps[i].expires_at )
       => /\ last'.resp.status = 400
          /\ last'.resp.token = NoToken
          /\ UNCHANGED <<dbvars, held_tokens>>]_vars

\* C5 witness: an unverified row matches phone and code, the clock has reached
\* its expires_at, and the verify-otp has just been refused.
C5_Witness ==
  \E i \in DOMAIN phone_otps :
    /\ phone_otps[i].is_verified = FALSE
    /\ now >= phone_otps[i].expires_at
    /\ last.req.op = "verify-otp"
    /\ last.req.phone_number = phone_otps[i].phone_number
    /\ last.req.otp = phone_otps[i].otp
    /\ last.resp.status = 400

StepIncomplete(practitioner_id, n) ==
  \/ practitioners[practitioner_id].onboarding_step < n
  \/ step_records[practitioner_id][n] = None

\* the step-n request by token that a step has just served
Served(n, token) == last' = [req |-> Request("save-step", None, None, token, n),
                             resp |-> last'.resp]

\* C6: a save of step n (2..5) made while step n-1 is not complete is refused
\* and writes nothing; a save of step 1 needs no earlier step.
C6_StepOrderEnforced ==
  [][\A token \in held_tokens :
       /\ \A n \in 1..4, payload \in Payloads :
            ( /\ Served(n, token)
              /\ SaveStep(n, token, payload)
              /\ onboarding_token_required(token) )
            => /\ (n > 1 /\ StepIncomplete(token.facilitator_id, n - 1)) =>
                    /\ last'.resp.status = 400
                    /\ UNCHANGED dbvars
               /\ (n = 1) =>
                    /\ last'.resp.status = 200
                    /\ step_records'[token.facilitator_id][1] = payload
       /\ \A experience_data \in 0..MaxRows, certification_data \in 0..MaxRows :
            ( /\ Served(5, token)
              /\ SaveStep5(token, experience_data, certification_data)
              /\ onboarding_token_required(token)
              /\ StepIncomplete(token.facilitator_id, 4) )
            => /\ last'.resp.status = 400
               /\ UNCHANGED dbvars]_vars

\* C6 witness: step 3 has just been refused for a practitioner with only step 1.
C6_Witness ==
  /\ last.req.op = "save-step" /\ last.req.step = 3
  /\ last.resp.status = 400
  /\ last.req.token.type = "onboarding"
  /\ practitioners[last.req.token.facilitator_id].onboarding_step = 1
  /\ step_records[last.req.token.facilitator_id][1] # None
  /\ step_records[last.req.token.facilitator_id][3] = None

C8_StepNeverDecreases ==
  [][/\ \A i \in DOMAIN practitioners :
          practitioners'[i].onboarding_step >= practitioners[i].onboarding_step
     /\ \A token \in held_tokens :
          /\ \A n \in 1..4, payload \in Payloads :
               ( /\ Served(n, token)
                 /\ SaveStep(n, token, payload)
                 /\ last'.resp.status = 200 )
               => practitioners'[token.facilitator_id].onboarding_step >= n
          /\ \A experience_data \in 0..MaxRows, certification_data \in 0..MaxRows :
               ( /\ Served(5, token)
                 /\ SaveStep5(token, experience_data, certification_data)
                 /\ last'.resp.status = 200 )
               => practitioners'[token.facilitator_id].onboarding_step >= 5]_vars

\* C8 witness: an earlier step has just been saved again by a practitioner
\* who is further on.
C8_Witness ==
  /\ last.req.op = "save-step" /\ last.resp.status = 200
  /\ last.req.step < 5
  /\ practitioners[last.req.token.facilitator_id].onboarding_step > last.req.step

\* C9: a successful step-5 save leaves crm_onboarding_completed true, and no
\* operation ever sets a true crm_onboarding_completed back to false.
C9_CompletionIsFinal ==
  [][/\ \A i \in DOMAIN practitioners :
          practitioners[i].crm_onboarding_completed
            => practitioners'[i].crm_onboarding_completed
     /\ \A token \in held_tokens,
           experience_data \in 0..MaxRows, certification_data \in 0..MaxRows :
          ( /\ Served(5, token)
            /\ SaveStep5(token, experience_data, certification_data)
            /\ last'.resp.status = 200 )
          => practitioners'[token.facilitator_id].crm_onboarding_completed]_vars

\* C9 witness: a completed practitioner has just saved an earlier step again
\* with the onboarding token, and is still completed.
C9_Witness ==
  /\ last.req.op = "save-step" /\ last.req.step < 5 /\ last.resp.status = 200
  /\ practitioners[last.req.token.facilitator_id].crm_onboarding_completed

ServedVerify(phone, otp) ==
  last'.req = Request("verify-otp", phone, otp, NoToken, None)

\* C11: a successful verify-otp for a phone that has a practitioner issues an auth
\* token with redirect_to dashboard exactly when crm_onboarding_completed is true;
\* otherwise an onboarding token with the practitioner's id, redirect_to
\* onboarding and the step to resume (onboarding_step + 1).
C11_TokenVariantFollowsCompletion ==
  [][\A phone \in Phones, otp \in Codes :
       ( /\ ServedVerify(phone, otp)
         /\ VerifyOtp(phone, otp)
         /\ last'.resp.status = 200
         /\ practitioner_by_phone(phone) # None )
       => LET practitioner_id == practitioner_by_phone(phone)
              row == practitioners[practitioner_id]
              resp == last'.resp
          IN /\ (resp.token.type = "auth" /\ resp.redirect_to = "dashboard")
                  <=> row.crm_onboarding_completed
             /\ row.crm_onboarding_completed =>
                  /\ resp.token = generate_auth_token(practitioner_id, phone)
                  /\ resp.token \in held_tokens'
             /\ ~row.crm_onboarding_completed =>
                  /\ resp.token = generate_temp_token(phone, practitioner_id)
                  /\ resp.redirect_to = "onboarding"
                  /\ resp.current_step = row.onboarding_step + 1
                  /\ ~resp.is_new_user]_vars

\* C11 witness: a practitioner who saved steps 1..5 logs in again and gets an
\* auth token.
C11_Witness ==
  /\ last.req.op = "verify-otp" /\ last.resp.status = 200
  /\ last.resp.token.type = "auth" /\ last.resp.redirect_to = "dashboard"
  /\ LET practitioner_id == last.resp.token.facilitator_id IN
       /\ practitioners[practitioner_id].crm_onboarding_completed
       /\ \A n \in 1..4 : step_records[practitioner_id][n] # None

\* the request with this bearer token that a step has just served
ServedWith(op, token, step) == last'.req = Request(op, None, None, token, step)

\* the claims an endpoint guard can rely on once the token decoded
Genuine(token) == token.signed /\ token.exp > now

\* C12: an auth-only endpoint (publish-website) goes past token_required only
\* for a signed, unexpired token of type auth with is_authenticated; an
\* onboarding endpoint (step 5) goes past onboarding_token_required only for a
\* signed, unexpired token of type onboarding with otp_verified.  An onboarding
\* token never passes the former, an auth token never the latter, and a refused
\* request writes nothing.
C12_GuardsAdmitOnlyTheirVariant ==
  [][\A token \in Presented :
       /\ \A subdomain \in Subdomains :
            (ServedWith("publish-website", token, None) /\ PublishWebsite(token, subdomain))
            => /\ last'.resp.status # 401
                 => (Genuine(token) /\ token.type = "auth" /\ token.is_authenticated)
               /\ token.type # "auth"
                 => (last'.resp.status = 401 /\ UNCHANGED <<dbvars, held_tokens>>)
       /\ \A experience_data \in 0..MaxRows, certification_data \in 0..MaxRows :
            ( /\ ServedWith("save-step", token, TOTAL_STEPS)
              /\ SaveStep5(token, experience_data, certification_data) )
            => /\ last'.resp.status # 401
                 => (Genuine(token) /\ token.type = "onboarding" /\ token.otp_verified)
               /\ token.type # "onboarding"
                 => (last'.resp.status = 401 /\ UNCHANGED <<dbvars, held_tokens>>)]_vars

\* C12 witness: the onboarding token a practitioner used for step 5 is still
\* unexpired after the onboarding completed, and publish-website refuses it.
C12_Witness ==
  /\ last.req.op = "publish-website" /\ last.resp.status = 401
  /\ last.req.token.type = "onboarding" /\ Genuine(last.req.token)
  /\ practitioners[last.req.token.facilitator_id].crm_onboarding_completed
  /\ \E t \in held_tokens : t.type = "auth" /\ token_required(t)
                            /\ t.facilitator_id = last.req.token.facilitator_id

\* C13: each guard answers a signed, unexpired token of the wrong variant with
\* the same response (status and body) as a token that does not decode (bad
\* signature or expired).
C13_WrongVariantRejectedLikeInvalid ==
  \A wrong, invalid \in Presented :
    (Genuine(wrong) /\ invalid # NoToken /\ decode_token(invalid) = NoToken)
    => /\ wrong.type # "auth"
          => token_required_response(wrong) = token_required_response(invalid)
       /\ wrong.type # "onboarding"
          => onboarding_token_required_response(wrong)
               = onboarding_token_required_response(invalid)

\* rows of the phone that carry the code
RowsWithCode(phone, otp) ==
  {i \in DOMAIN phone_otps :
     phone_otps[i].phone_number = phone /\ phone_otps[i].otp = otp}

\* C14: a verify-otp refused because the code is wrong (no row carries it),
\* expired (a row carries it, past expires_at) or already used (a row carries
\* it, is_verified set) gets one and the same response, 400 with the error
\* "Invalid or expired OTP", and writes nothing.
C14_RefusalIsOpaque ==
  [][\A phone \in Phones, otp \in Codes :
       (ServedVerify(phone, otp) /\ VerifyOtp(phone, otp))
       => LET rows == RowsWithCode(phone, otp)
              wrong == rows = {}
              expired == \E i \in rows : now >= phone_otps[i].expires_at
              used == \E i \in rows : phone_otps[i].is_verified
              refusal == ErrorResponse(400, "Invalid or expired OTP")
          IN /\ last'.resp.status # 200
                  => /\ last'.resp = refusal
                     /\ wrong \/ expired \/ used
                     /\ UNCHANGED <<dbvars, held_tokens>>
             /\ wrong => last'.resp = refusal
             /\ (\A i \in rows : now >= phone_otps[i].expires_at) => last'.resp = refusal
             /\ (\A i \in rows : phone_otps[i].is_verified) => last'.resp = refusal]_vars

\* C14 witness: a code that was verified and committed is submitted again
\* inside its lifetime and is refused.
C14_Witness ==
  /\ last.req.op = "verify-otp" /\ last.resp.status = 400
  /\ \E i \in DOMAIN phone_otps :
       /\ phone_otps[i].phone_number = last.req.phone_number
       /\ phone_otps[i].otp = last.req.otp
       /\ phone_otps[i].is_verified /\ otp_uses[i] = 1
       /\ phone_otps[i].expires_at > now

\* C15: for every practitioner and every step n in 1..5, when
\* get_facilitator_onboarding_status reports current_step >= n it reports step n
\* as completed (its record exists; for step 5, a work-experience or
\* certification row).
C15_StatusAgreesWithRecords ==
  \A practitioner_id \in DOMAIN practitioners : \A n \in Steps :
    LET onboarding_status == get_facilitator_onboarding_status(practitioner_id) IN
    onboarding_status.current_step >= n => onboarding_status.completed_steps[n]

\* C16: crm_onboarding_completed is true exactly when onboarding_step has reached
\* the final step (>= 5), and never for a practitioner who lacks the record of
\* one of the steps 1..4.
C16_CompletedIffFinalStep ==
  \A practitioner_id \in DOMAIN practitioners :
    LET row == practitioners[practitioner_id] IN
    /\ row.crm_onboarding_completed <=> row.onboarding_step >= TOTAL_STEPS
    /\ row.crm_onboarding_completed
         => \A n \in 1..4 : step_records[practitioner_id][n] # None

\* C16 witness: one practitioner has completed the onboarding while another,
\* with steps 1..4 saved, has not.
C16_Witness ==
  \E done, pending \in DOMAIN practitioners :
    /\ practitioners[done].crm_onboarding_completed
    /\ practitioners[done].onboarding_step >= TOTAL_STEPS
    /\ ~practitioners[pending].crm_onboarding_completed
    /\ practitioners[pending].onboarding_step = 4

\* C17: a step-n request (n in 1..5) that meets a database error reports failure
\* and leaves the tables exactly as they were: the step's record(s),
\* onboarding_step and crm_onboarding_completed are unchanged.
C17_FailedSaveChangesNothing ==
  [][\A token \in held_tokens : \A point \in {"status", "save", "profile"} :
       /\ \A n \in 1..4, payload \in Payloads :
            (ServedWith("save-step", token, n) /\ SaveStepFails(n, token, payload, point))
            => (last'.resp.status # 200 /\ UNCHANGED dbvars)
       /\ \A experience_data \in 0..MaxRows, certification_data \in 0..MaxRows :
            ( /\ ServedWith("save-step", token, TOTAL_STEPS)
              /\ SaveStep5Fails(token, experience_data, certification_data, point) )
            => (last'.resp.status # 200 /\ UNCHANGED dbvars)]_vars

\* C18: with onboarding-step requests of one practitioner interleaved (status
\* check, then the statements and the commit of the save), onboarding_step never
\* decreases, it is at least n for every finished request of step n that
\* reported success, and no save of step n >= 2 commits while step n-1 is
\* incomplete.
C18_ConcurrentStepsKeepOrder ==
  [][/\ \A i \in DOMAIN practitioners :
          practitioners'[i].onboarding_step >= practitioners[i].onboarding_step
     /\ \A s \in Slots :
          ( /\ inflight'[s].pc = "done"
            /\ inflight'[s].req.op = "save-step"
            /\ inflight'[s].resp.status = 200 )
          => practitioners'[inflight'[s].req.token.facilitator_id].onboarding_step
               >= inflight'[s].req.step
     /\ \A s \in Slots :
          ( /\ inflight[s].pc = "step:commit"
            /\ CommitStep(s)
            /\ inflight'[s].resp.status = 200
            /\ inflight[s].req.step >= 2 )
          => ~StepIncomplete(inflight[s].req.token.facilitator_id,
                             inflight[s].req.step - 1)]_vars

\* C18 witness: two requests saved the same step for the first time side by
\* side; one committed, the other lost on the unique row, and a later step has
\* been saved since.
C18_Witness ==
  \E s, t \in Slots :
    /\ s # t
    /\ inflight[s].pc = "done" /\ inflight[s].req.op = "save-step"
    /\ inflight[s].resp.status = 500
    /\ inflight[t].pc = "done" /\ inflight[t].req.op = "save-step"
    /\ inflight[t].resp.status = 200
    /\ inflight[t].req.step > inflight[s].req.step
    /\ practitioners[inflight[t].req.token.facilitator_id].onboarding_step
         >= inflight[t].req.step

\* C19: re-submitting step n (1..4) for a practitioner whose onboarding_step is
\* already >= n succeeds, replaces the data of the step's record by the data
\* submitted, touches no other step's record, and leaves onboarding_step and
\* crm_onboarding_completed as they were.
C19_ResaveOverwritesOnly ==
  [][\A token \in held_tokens, n \in 1..4, payload \in Revisions :
       LET practitioner_id == token.facilitator_id IN
       ( /\ Served(n, token)
         /\ SaveStep(n, token, payload)
         /\ onboarding_token_required(token)
         /\ practitioners[practitioner_id].onboarding_step >= n )
       => /\ last'.resp.status = 200
          /\ step_records[practitioner_id][n] # None
          /\ step_records'[practitioner_id][n] = payload
          /\ \A m \in 1..4 : m # n =>
               step_records'[practitioner_id][m] = step_records[practitioner_id][m]
          /\ practitioners'[practitioner_id].onboarding_step
               = practitioners[practitioner_id].onboarding_step
          /\ practitioners'[practitioner_id].crm_onboarding_completed
               = practitioners[practitioner_id].crm_onboarding_completed
          /\ UNCHANGED <<work_experience, certifications>>]_vars

\* C19 witness: a practitioner who completed the onboarding has re-saved an
\* earlier step with revised data.
C19_Witness ==
  /\ last.req.op = "save-step" /\ last.req.step \in 1..4 /\ last.resp.status = 200
  /\ LET practitioner_id == last.req.token.facilitator_id IN
       /\ practitioners[practitioner_id].onboarding_step = FINAL_STEP
       /\ practitioners[practitioner_id].crm_onboarding_completed
       /\ step_records[practitioner_id][last.req.step] = NPayloads + 1
       /\ \E m \in 1..4 : step_records[practitioner_id][m] # NPayloads + 1

ReservedLabels == {<<"w", "w", "w">>, <<"a", "p", "i">>, <<"a", "d", "m", "i", "n">>}

ServedPublic == last.req.op = "public-website"

\* C21: a public request whose Host is a reserved label (www, api, admin) under
\* the production base domain or under .localhost gets no subdomain from
\* get_subdomain_from_host and resolves to no tenant, whatever practitioners
\* have published.
C21_ReservedLabelsNeverResolve ==
  ( /\ ServedPublic
    /\ \E label \in ReservedLabels, base \in BaseDomains, port \in Ports :
         last.req.host = label \o base \o port )
  => /\ get_subdomain_from_host(last.req.host) = NoSubdomain
     /\ last.resp = WebsiteNotFound

\* C22: a public request resolves to practitioner P exactly when its Host, port
\* stripped, is P's subdomain followed by a base domain, the subdomain is not a
\* label the resolver ignores under that base domain, and P is published and
\* active; every other host resolves to no tenant.
C22_TenantIffPublishedActiveLabel ==
  ServedPublic =>
    \A i \in DOMAIN practitioners :
      (last.resp.status = 200 /\ last.resp.practitioner = i)
      <=> \E base \in BaseDomains :
            /\ practitioners[i].subdomain # NoSubdomain
            /\ split_port(last.req.host) = practitioners[i].subdomain \o base
            /\ practitioners[i].subdomain \notin reserved_subdomains(base)
            /\ practitioners[i].website_published
            /\ practitioners[i].is_active

\* the practitioner rows that hold the subdomain a host names
HoldersOf(host) ==
  {i \in DOMAIN practitioners :
     /\ practitioners[i].subdomain # NoSubdomain
     /\ practitioners[i].subdomain = get_subdomain_from_host(host)}

\* C23: a public request for a subdomain nobody holds, for one whose holder is
\* unpublished and for one whose holder is inactive is answered with the same
\* 404 "Website not found" response.
C23_NotFoundIsUniform ==
  ( /\ ServedPublic
    /\ \A i \in HoldersOf(last.req.host) :
         ~practitioners[i].website_published \/ ~practitioners[i].is_active )
  => last.resp = WebsiteNotFound

\* C23 witness: the table holds an unpublished subdomain and the subdomain of an
\* inactive practitioner, and a request for one of them has just been answered
\* as a request for an unknown subdomain is.
C23_Witness ==
  /\ ServedPublic
  /\ HoldersOf(last.req.host) # {}
  /\ \E i, j \in DOMAIN practitioners :
       /\ practitioners[i].subdomain # NoSubdomain /\ ~practitioners[i].website_published
       /\ practitioners[j].subdomain # NoSubdomain /\ ~practitioners[j].is_active
  /\ last.resp = WebsiteNotFound
  /\ \E host \in Hosts :
       /\ get_subdomain_from_host(host) # NoSubdomain
       /\ HoldersOf(host) = {}
       /\ serve_public_website(before_request(host)) = last.resp

\* C25: Host headers that differ only in letter case resolve alike: to the
\* same tenant, or all to no tenant.
C25_ResolutionIgnoresCase ==
  ServedPublic =>
    \A host \in Hosts :
      lower(host) = lower(last.req.host)
        => LET other == serve_public_website(before_request(host)) IN
           /\ other.status = last.resp.status
           /\ other.practitioner = last.resp.practitioner

\* C30: a publish-website request for a subdomain that some practitioner holds,
\* the requester included, is answered "Subdomain taken" and leaves every
\* practitioner's subdomain, website_published and website_status as they were.
C30_TakenSubdomainRejected ==
  [][\A token \in LoggedIn, subdomain \in RequestedSubdomains :
       ( /\ ServedWith("publish-website", token, None)
         /\ \E i \in DOMAIN practitioners : practitioners[i].subdomain = subdomain
         /\ PublishWebsite(token, subdomain) )
       => /\ last'.resp = ErrorResponse(400, "Subdomain taken")
          /\ \A i \in DOMAIN practitioners :
               /\ practitioners'[i].subdomain = practitioners[i].subdomain
               /\ practitioners'[i].website_published = practitioners[i].website_published
               /\ practitioners'[i].website_status = practitioners[i].website_status]_vars

\* C30 witness: a practitioner who holds the only subdomain of the table, not
\* yet published, has just been refused a subdomain as taken: their own.
C30_Witness ==
  /\ last.req.op = "publish-website"
  /\ last.resp = ErrorResponse(400, "Subdomain taken")
  /\ practitioners[last.req.token.facilitator_id].subdomain # NoSubdomain
  /\ ~practitioners[last.req.token.facilitator_id].website_published
  /\ \A i \in DOMAIN practitioners :
       i # last.req.token.facilitator_id => practitioners[i].subdomain = NoSubdomain

\* C24: in every state that interleaved publish-website requests reach, no two
\* practitioners hold subdomains that are equal ignoring letter case.
C24_SubdomainsUniqueIgnoringCase ==
  \A i, j \in DOMAIN practitioners :
    ( /\ i # j
      /\ practitioners[i].subdomain # NoSubdomain
      /\ practitioners[j].subdomain # NoSubdomain )
    => lower(practitioners[i].subdomain) # lower(practitioners[j].subdomain)

\* C24 witness: two requests of different practitioners for the same subdomain
\* both passed check_subdomain_exists; one has published it and the other's
\* update was turned down.
C24_Witness ==
  \E s, t \in Slots :
    /\ inflight[s].pc = "done" /\ inflight[t].pc = "done"
    /\ inflight[s].req.subdomain = inflight[t].req.subdomain
    /\ inflight[s].req.token.facilitator_id # inflight[t].req.token.facilitator_id
    /\ inflight[s].resp.status = 200
    /\ inflight[t].resp = ErrorResponse(500, "Failed to publish website")
    /\ practitioners[inflight[s].req.token.facilitator_id].subdomain
         = inflight[s].req.subdomain

\* the newest OTP row of a phone
NewestOtp(phone) ==
  CHOOSE i \in DOMAIN phone_otps :
    /\ phone_otps[i].phone_number = phone
    /\ \A j \in DOMAIN phone_otps : phone_otps[j].phone_number = phone => j <= i

\* C26: a send-otp whose SMS fails answers with a send failure and still stores
\* its OTP row, marking the phone's earlier rows used; a verify-otp with the
\* stored code before its expiry succeeds, and one with an earlier code of the
\* phone is refused.
C26_OtpPersistsWhenSmsFails ==
  [][\A phone \in Phones, otp \in Codes :
       /\ SendOtp(phone, otp, FALSE)
            => /\ last'.resp = ErrorResponse(500, "Failed to send SMS. Please try again.")
               /\ Len(phone_otps') = Len(phone_otps) + 1
               /\ phone_otps'[Len(phone_otps')] = PhoneOTP(phone, otp, now + OTP_TTL_MINUTES)
               /\ \A i \in DOMAIN phone_otps :
                    phone_otps[i].phone_number = phone => phone_otps'[i].is_verified
       /\ ( /\ ServedVerify(phone, otp)
            /\ HasOtp(phone)
            /\ VerifyOtp(phone, otp) )
            => IF /\ phone_otps[NewestOtp(phone)].otp = otp
                  /\ ~phone_otps[NewestOtp(phone)].is_verified
                  /\ now < phone_otps[NewestOtp(phone)].expires_at
               THEN last'.resp.status = 200 /\ last'.resp.token # NoToken
               ELSE phone_otps[NewestOtp(phone)].otp # otp => last'.resp.status = 400]_vars

\* C26 witness: every SMS failed, the phone was sent two codes, the earlier row
\* is marked used, and a verify-otp with the later code has just succeeded.
C26_Witness ==
  /\ last.req.op = "verify-otp"
  /\ last.resp.status = 200
  /\ HasOtp(last.req.phone_number)
  /\ phone_otps[NewestOtp(last.req.phone_number)].otp = last.req.otp
  /\ otp_uses[NewestOtp(last.req.phone_number)] >= 1
  /\ \E i \in DOMAIN phone_otps :
       /\ i < NewestOtp(last.req.phone_number)
       /\ phone_otps[i].phone_number = last.req.phone_number
       /\ phone_otps[i].otp # last.req.otp
       /\ phone_otps[i].is_verified
       /\ otp_uses[i] = 0

\* C27: in every state, also with verify-otp requests interleaved, at most one
\* practitioner row exists per phone number; no step deletes a practitioner
\* row, and a verify-otp that commits for a phone that has a practitioner adds
\* none.
C27_OnePractitionerPerPhone ==
  /\ [](\A i, j \in DOMAIN practitioners :
          practitioners[i].phone_number = practitioners[j].phone_number => i = j)
  /\ [][/\ \A i \in DOMAIN practitioners :
             /\ i \in DOMAIN practitioners'
             /\ practitioners'[i].phone_number = practitioners[i].phone_number
        /\ \A s \in Slots :
             ( /\ inflight[s].pc = "verify:commit"
               /\ practitioner_by_phone(inflight[s].req.phone_number) # None
               /\ CommitVerifyOtp(s) )
             => Len(practitioners') = Len(practitioners)]_vars

\* C27 witness: two overlapping verify-otp requests for a phone that had no
\* practitioner both found none; one created the practitioner, the other's
\* INSERT was turned down, and the phone has its one row.
C27_Witness ==
  \E s, t \in Slots :
    /\ s # t /\ t \in inflight[s].with
    /\ inflight[s].pc = "done" /\ inflight[t].pc = "done"
    /\ inflight[s].req.op = "verify-otp" /\ inflight[t].req.op = "verify-otp"
    /\ inflight[s].req.phone_number = inflight[t].req.phone_number
    /\ inflight[s].seen = None /\ inflight[t].seen = None
    /\ inflight[s].resp.status = 200 /\ inflight[s].resp.is_new_user
    /\ inflight[t].resp = ErrorResponse(400, "Failed to verify OTP")
    /\ Cardinality({i \in DOMAIN practitioners :
         practitioners[i].phone_number = inflight[s].req.phone_number}) = 1

\* C28: a verify-otp for which no row matches phone and code while unverified
\* and unexpired changes nothing: no practitioner is created or modified, no
\* row's is_verified changes, and no token is issued.
C28_FailedVerifyChangesNothing ==
  [][\A phone \in Phones, otp \in Codes :
       ( /\ ServedVerify(phone, otp)
         /\ ~\E i \in DOMAIN phone_otps :
               /\ phone_otps[i].phone_number = phone
               /\ phone_otps[i].otp = otp
               /\ ~phone_otps[i].is_verified
               /\ now < phone_otps[i].expires_at
         /\ VerifyOtp(phone, otp) )
       => /\ practitioners' = practitioners
          /\ phone_otps' = phone_otps
          /\ UNCHANGED <<step_records, work_experience, certifications>>
          /\ last'.resp.status = 400
          /\ last'.resp.token = NoToken
          /\ held_tokens' = held_tokens]_vars

\* C28 witness: the phone has an unverified row that has expired and no
\* practitioner, a verify-otp with the row's code has just been refused, and
\* the row is still unverified and the phone still without a practitioner.
C28_Witness ==
  /\ last.req.op = "verify-otp"
  /\ last.resp.status = 400
  /\ last.resp.token = NoToken
  /\ practitioner_by_phone(last.req.phone_number) = None
  /\ \E i \in DOMAIN phone_otps :
       /\ phone_otps[i].phone_number = last.req.phone_number
       /\ phone_otps[i].otp = last.req.otp
       /\ ~phone_otps[i].is_verified
       /\ now >= phone_otps[i].expires_at

\* C29: a step save presented with an onboarding token leaves the practitioner
\* row, the step records and the experience and certification rows of every
\* practitioner other than the one whose id the token carries as they were.
C29_StepSaveTouchesOwnRowsOnly ==
  [][\A token \in held_tokens, n \in Steps :
       ( /\ Served(n, token)
         /\ \/ \E payload \in Payloads : n < TOTAL_STEPS /\ SaveStep(n, token, payload)
            \/ \E experience_data \in 0..MaxRows, certification_data \in 0..MaxRows :
                 n = TOTAL_STEPS /\ SaveStep5(token, experience_data, certification_data) )
       => \A i \in DOMAIN practitioners :
            i # token.facilitator_id
              => /\ practitioners'[i] = practitioners[i]
                 /\ step_records'[i] = step_records[i]
                 /\ work_experience'[i] = work_experience[i]
                 /\ certifications'[i] = certifications[i]]_vars

\* C29 witness: two practitioners are signed up, one has completed onboarding
\* with experience rows saved, and the other's step save has just been accepted.
C29_Witness ==
  /\ last.req.op = "save-step"
  /\ last.resp.status = 200
  /\ last.req.token.type = "onboarding"
  /\ \E i \in DOMAIN practitioners :
       /\ i # last.req.token.facilitator_id
       /\ practitioners[i].crm_onboarding_completed
       /\ work_experience[i] > 0
       /\ step_records[i][1] # None
  /\ practitioners[last.req.token.facilitator_id].onboarding_step >= 1

====
